---- MODULE Spec2Model ----
(***************************************************************************)
(* Billing reconciliation of the designer back end: the subscription       *)
(* service (subscribe, cancelSubscription, handleStripeWebhook, the daily  *)
(* sweep), the two webhook routes, the verify callback and the plan        *)
(* enforcement middleware, over the User and Subscription collections.     *)
(***************************************************************************)
EXTENDS Integers, Sequences, FiniteSets, TLC

VARIABLES
    users,       \* User collection: userId -> document (fields the billing code touches)
    subs,        \* Subscription collection: a set of documents
    nextId,      \* next ObjectId the store hands to an inserted Subscription
    stripeSubs,  \* the provider's subscriptions, indexed by their id (1..Len)
    flwTx,       \* the Flutterwave transactions, indexed by their reference (1..Len)
    usage,       \* userId -> number of Client and Project documents, AI generations
    procs        \* requests in flight: each one's inputs, position and local variables

vars == <<users, subs, nextId, stripeSubs, flwTx, usage, procs>>

(***************************************************************************)
(* Bounds of the model.                                                    *)
(***************************************************************************)
MaxIds == 2          \* Subscription documents ever inserted
MaxStripeSubs == 2   \* subscriptions ever created at the provider
MaxPeriod == 1       \* billing periods the provider reports (0..MaxPeriod)
MaxTx == 2           \* Flutterwave transactions ever initialized
MaxClientsModelled == 4   \* Client documents per user
MaxProjectsModelled == 6  \* Project documents per user

(***************************************************************************)
(* Values.                                                                 *)
(***************************************************************************)
Users == {"u1"}
NoSuchUser == "u_gone"                 \* an id that findById does not find
UnknownCustomer == "cus_other"         \* a provider customer of no user
Customers == Users \cup {UnknownCustomer}  \* a customer is named after the user it is of
Null == 0                              \* null ObjectId / null provider id
NoDate == -1
NoCustomer == "none"
NoPaymentMethod == "none"
PaymentMethods == {"pm_1"}
Periods == 0..MaxPeriod

Plans == {"free", "premium", "enterprise"}            \* UserSchema.plan enum
PlanIdEnum == {"premium", "enterprise"}               \* SubscriptionSchema.planId enum
StatusEnum == {"trialing", "active", "canceled", "overdue"}  \* SubscriptionSchema.status enum
RequestedPlans == Plans \cup {"gold"}                 \* what a request body may carry
StripeStatuses == {"active", "canceled", "past_due"}  \* statuses a provider event may carry

PricePremium == "price_premium"
PriceEnterprise == "price_enterprise"
PriceOther == "price_other"
PriceUndefined == "undefined"
EventPrices == {PricePremium, PriceEnterprise, PriceOther}

\* subscriptionService.stripePriceIds
stripePriceIds(planId) ==
    CASE planId = "premium" -> PricePremium
      [] planId = "enterprise" -> PriceEnterprise
      [] OTHER -> PriceUndefined

NoRec == [id |-> Null]

(***************************************************************************)
(* The document store.                                                     *)
(***************************************************************************)
\* Subscription.findOne({ userId })
FindOneByUserId(S, userId) ==
    IF \E r \in S : r.userId = userId
    THEN CHOOSE r \in S : r.userId = userId
    ELSE NoRec

\* Subscription.findOne({ stripeSubscriptionId })
FindOneByStripeSubscriptionId(S, sid) ==
    IF \E r \in S : r.stripeSubscriptionId = sid
    THEN CHOOSE r \in S : r.stripeSubscriptionId = sid
    ELSE NoRec

\* runValidators: the enum validators of the fields an update sets
ValidUpdate(data) ==
    /\ data.planId \in PlanIdEnum
    /\ data.status \in StatusEnum

\* a plain-object update sets the fields it names and keeps the others
Merge(r, data) == [f \in DOMAIN r |-> IF f \in DOMAIN data THEN data[f] ELSE r[f]]

\* the document an upsert inserts: the update's fields, schema defaults for the rest
\* (paymentMethod, which only the payment-method endpoints read, is left out)
NewDoc(id, data) ==
    Merge([id |-> id, userId |-> NoSuchUser, planId |-> "premium", status |-> "trialing",
           stripeCustomerId |-> NoCustomer, stripeSubscriptionId |-> Null,
           startDate |-> NoDate, dueDate |-> NoDate, providerTxRef |-> Null],
          data)

\* mutant: the upsert inserts even when the user already has a document
UpsertAlwaysInsert(S, userId, data, id) == S \cup {NewDoc(id, data)}

\* Subscription.findOneAndUpdate({ userId }, data, { new: true, upsert: true })
UpsertByUserId(S, userId, data, id) ==
    LET r == FindOneByUserId(S, userId) IN
    IF r = NoRec THEN S \cup {NewDoc(id, data)}
    ELSE (S \ {r}) \cup {Merge(r, data)}

\* User.findByIdAndUpdate(userId, update)
UpdateUser(U, userId, update) == [U EXCEPT ![userId] = Merge(U[userId], update)]

(***************************************************************************)
(* The state the services work on, as one value, and what a service call   *)
(* hands back: the state it leaves, the HTTP status and error code of its  *)
(* outcome, and the provider calls it made.                                *)
(***************************************************************************)
World ==
    [users |-> users, subs |-> subs, nextId |-> nextId, stripeSubs |-> stripeSubs,
     flwTx |-> flwTx]

Result(w, status, code, calls) == [w |-> w, status |-> status, code |-> code, calls |-> calls]

\* the id counter moves when the store has used the id it held
Stored(w, U, S) ==
    [w EXCEPT !.users = U, !.subs = S,
              !.nextId = IF \E r \in S : r.id = w.nextId THEN w.nextId + 1 ELSE w.nextId]

\* the provider refuses to change a subscription it has already canceled
ProviderSubLive(w, sid) == sid \in 1..Len(w.stripeSubs) /\ w.stripeSubs[sid].status # "canceled"

\* stripe.subscriptions.del(id)
ProviderCancel(w, sid) == [w EXCEPT !.stripeSubs[sid].status = "canceled"]

\* stripe.subscriptions.create({ customer, items })
ProviderCreate(w, customer) ==
    [w EXCEPT !.stripeSubs = Append(@, [customer |-> customer, status |-> "active"])]

(***************************************************************************)
(* subscriptionService.subscribe(userId, planId, paymentMethodId).         *)
(* fail names the provider call that fails in this run ("none": no call    *)
(* fails); period is the billing period the provider reports.              *)
(***************************************************************************)
SubscribeFailPoints ==
    {"none", "customers.create", "paymentMethods.attach",
     "subscriptions.update", "subscriptions.create"}

\* mutant: the record is made active without the provider's period dates
SubscribeStoreWithoutDates(w, userId, planId, paymentMethodId, sid, period, calls) ==
    LET subscriptionData ==
            [userId |-> userId, planId |-> planId, status |-> "active",
             stripeCustomerId |-> userId, stripeSubscriptionId |-> sid]
    IN
    IF ~ValidUpdate(subscriptionData)
    THEN Result(w, 500, "SUBSCRIBE_FAILED", calls)
    ELSE LET S == UpsertByUserId(w.subs, userId, subscriptionData, w.nextId)
             newSubscription == FindOneByUserId(S, userId)
             U == UpdateUser(w.users, userId,
                             [plan |-> planId, isSubActive |-> TRUE,
                              subscriptionId |-> newSubscription.id])
         IN Result(Stored(w, U, S), 200, "OK", calls)

\* mutant: the back-reference is taken from the id counter, not from the
\* document the upsert returned
SubscribeStoreFreshId(w, userId, planId, paymentMethodId, sid, period, calls) ==
    LET subscriptionData ==
            [userId |-> userId, planId |-> planId, status |-> "active",
             stripeCustomerId |-> userId, stripeSubscriptionId |-> sid,
             startDate |-> period, dueDate |-> period + 1]
    IN
    IF ~ValidUpdate(subscriptionData)
    THEN Result(w, 500, "SUBSCRIBE_FAILED", calls)
    ELSE LET S == UpsertByUserId(w.subs, userId, subscriptionData, w.nextId)
             U == UpdateUser(w.users, userId,
                             [plan |-> planId, isSubActive |-> TRUE,
                              subscriptionId |-> w.nextId])
         IN Result(Stored(w, U, S), 200, "OK", calls)

\* lines 87-115: the local writes after the provider calls
SubscribeStore(w, userId, planId, paymentMethodId, sid, period, calls) ==
    LET subscriptionData ==
            [userId |-> userId, planId |-> planId, status |-> "active",
             stripeCustomerId |-> userId, stripeSubscriptionId |-> sid,
             startDate |-> period, dueDate |-> period + 1]
    IN
    IF ~ValidUpdate(subscriptionData)
    THEN Result(w, 500, "SUBSCRIBE_FAILED", calls)
    ELSE LET S == UpsertByUserId(w.subs, userId, subscriptionData, w.nextId)
             newSubscription == FindOneByUserId(S, userId)
             U == UpdateUser(w.users, userId,
                             [plan |-> planId, isSubActive |-> TRUE,
                              subscriptionId |-> newSubscription.id])
         IN Result(Stored(w, U, S), 200, "OK", calls)

\* lines 65-85: the switch to the free plan
SubscribeFree(w, userId, existingSubscription, calls) ==
    LET hasStripeSub == existingSubscription # NoRec
                        /\ existingSubscription.stripeSubscriptionId # Null
        w1 == IF hasStripeSub
              THEN [ProviderCancel(w, existingSubscription.stripeSubscriptionId)
                        EXCEPT !.subs = @ \ {existingSubscription}]
              ELSE w
        U == UpdateUser(w1.users, userId,
                        [plan |-> "free", isSubActive |-> TRUE, subscriptionId |-> Null])
    IN Result(Stored(w1, U, w1.subs), 200, "OK",
              IF hasStripeSub THEN calls \cup {"subscriptions.del"} ELSE calls)

\* mutant: the user's plan is written before the provider has answered
subscribeWritingFirst(w, userId, planId, paymentMethodId, fail, period) ==
    LET isPaidPlan == planId # "free"
        stripePriceId == stripePriceIds(planId)
        existingSubscription == FindOneByUserId(w.subs, userId)
        hasStripeSub == existingSubscription # NoRec
                        /\ existingSubscription.stripeSubscriptionId # Null
        c1 == {"customers.create"}
        c2 == IF isPaidPlan THEN c1 \cup {"paymentMethods.attach"} ELSE c1
        w0 == [w EXCEPT !.users = UpdateUser(w.users, userId,
                                             [plan |-> planId, isSubActive |-> TRUE])]
    IN
    IF userId \notin Users THEN Result(w, 404, "USER_NOT_FOUND", {})
    ELSE IF isPaidPlan /\ paymentMethodId = NoPaymentMethod
    THEN Result(w, 400, "PAYMENT_METHOD_REQUIRED", {})
    ELSE IF fail = "customers.create" THEN Result(w0, 500, "PROVIDER_ERROR", c1)
    ELSE IF isPaidPlan /\ fail = "paymentMethods.attach"
    THEN Result(w0, 500, "PROVIDER_ERROR", c2)
    ELSE IF hasStripeSub
    THEN LET sid == existingSubscription.stripeSubscriptionId
             c3 == c2 \cup {"subscriptions.update"}
         IN IF fail = "subscriptions.update" \/ ~ProviderSubLive(w, sid)
            THEN Result(w0, 500, "PROVIDER_ERROR", c3)
            ELSE SubscribeStore(w, userId, planId, paymentMethodId, sid, period, c3)
    ELSE IF isPaidPlan
    THEN LET c3 == c2 \cup {"subscriptions.create"}
             sid == Len(w.stripeSubs) + 1
         IN IF fail = "subscriptions.create" \/ stripePriceId = PriceUndefined
            THEN Result(w0, 500, "PROVIDER_ERROR", c3)
            ELSE SubscribeStore(ProviderCreate(w, userId), userId, planId,
                                paymentMethodId, sid, period, c3)
    ELSE SubscribeFree(w, userId, existingSubscription, c2)

subscribe(w, userId, planId, paymentMethodId, fail, period) ==
    LET isPaidPlan == planId # "free"
        stripePriceId == stripePriceIds(planId)
        existingSubscription == FindOneByUserId(w.subs, userId)
        hasStripeSub == existingSubscription # NoRec
                        /\ existingSubscription.stripeSubscriptionId # Null
        c1 == {"customers.create"}
        c2 == IF isPaidPlan THEN c1 \cup {"paymentMethods.attach"} ELSE c1
    IN
    IF userId \notin Users THEN Result(w, 404, "USER_NOT_FOUND", {})
    ELSE IF isPaidPlan /\ paymentMethodId = NoPaymentMethod
    THEN Result(w, 400, "PAYMENT_METHOD_REQUIRED", {})
    ELSE IF fail = "customers.create" THEN Result(w, 500, "PROVIDER_ERROR", c1)
    ELSE IF isPaidPlan /\ fail = "paymentMethods.attach"
    THEN Result(w, 500, "PROVIDER_ERROR", c2)
    ELSE IF hasStripeSub
    THEN LET sid == existingSubscription.stripeSubscriptionId
             c3 == c2 \cup {"subscriptions.update"}
         IN IF fail = "subscriptions.update" \/ ~ProviderSubLive(w, sid)
            THEN Result(w, 500, "PROVIDER_ERROR", c3)
            ELSE SubscribeStore(w, userId, planId, paymentMethodId, sid, period, c3)
    ELSE IF isPaidPlan
    THEN LET c3 == c2 \cup {"subscriptions.create"}
             sid == Len(w.stripeSubs) + 1
         IN IF fail = "subscriptions.create" \/ stripePriceId = PriceUndefined
            THEN Result(w, 500, "PROVIDER_ERROR", c3)
            ELSE SubscribeStore(ProviderCreate(w, userId), userId, planId,
                                paymentMethodId, sid, period, c3)
    ELSE SubscribeFree(w, userId, existingSubscription, c2)

(***************************************************************************)
(* subscriptionService.cancelSubscription(userId).                         *)
(***************************************************************************)
cancelSubscription(w, userId, fail) ==
    LET subscription == FindOneByUserId(w.subs, userId) IN
    IF userId \notin Users THEN Result(w, 404, "USER_NOT_FOUND", {})
    ELSE IF subscription = NoRec \/ subscription.stripeSubscriptionId = Null
    THEN Result(w, 400, "NO_ACTIVE_SUBSCRIPTION", {})
    ELSE LET sid == subscription.stripeSubscriptionId
             calls == {"subscriptions.del"}
         IN IF fail \/ ~ProviderSubLive(w, sid)
            THEN Result(w, 500, "PROVIDER_ERROR", calls)
            ELSE LET S == (w.subs \ {subscription})
                          \cup {[subscription EXCEPT !.status = "canceled"]}
                     U == UpdateUser(w.users, userId,
                                     [plan |-> "free", subscriptionId |-> Null])
                 IN Result(Stored(ProviderCancel(w, sid), U, S), 200, "OK", calls)

(***************************************************************************)
(* userService.deleteAccount(userId): cancels the subscription the user     *)
(* document refers to, then marks the account deleted (a field the billing *)
(* code does not read).  adminService.changeUserPlan({ userId, planId }).  *)
(***************************************************************************)
deleteAccount(w, userId, fail) ==
    IF userId \notin Users THEN Result(w, 404, "USER_NOT_FOUND", {})
    ELSE IF w.users[userId].subscriptionId # Null
    THEN cancelSubscription(w, userId, fail)
    ELSE Result(w, 200, "OK", {})

changeUserPlan(w, userId, planId, fail, period) ==
    subscribe(w, userId, planId, NoPaymentMethod, fail, period)

(***************************************************************************)
(* subscriptionService.handleStripeWebhook(event).  An event is            *)
(* [type, sid, status, price, period]: the provider subscription it is     *)
(* about, and the status, price and billing period it carries.  A status   *)
(* of 0 in the result stands for an exception the handler lets escape.     *)
(***************************************************************************)
EventTypes ==
    {"customer.subscription.created", "customer.subscription.updated",
     "customer.subscription.deleted", "invoice.payment_succeeded",
     "invoice.payment_failed"}

\* User.findOne({ stripeCustomerId })
FindUserByStripeCustomerId(U, customer) ==
    IF \E u \in Users : U[u].stripeCustomerId = customer
    THEN CHOOSE u \in Users : U[u].stripeCustomerId = customer
    ELSE NoSuchUser

\* lines 244-248
EventPlanId(price) == IF price = PricePremium THEN "premium" ELSE "enterprise"

\* lines 236-271: customer.subscription.created / customer.subscription.updated
WebhookSubscriptionUpserted(w, event) ==
    LET customer == w.stripeSubs[event.sid].customer
        user == FindUserByStripeCustomerId(w.users, customer)
        planId == EventPlanId(event.price)
        subscriptionData ==
            [userId |-> user, planId |-> planId, status |-> event.status,
             stripeCustomerId |-> customer, stripeSubscriptionId |-> event.sid,
             startDate |-> event.period, dueDate |-> event.period + 1]
    IN
    IF user = NoSuchUser THEN Result(w, 200, "USER_NOT_FOUND_LOGGED", {})
    ELSE IF ~ValidUpdate(subscriptionData) THEN Result(w, 0, "ValidationError", {})
    ELSE LET S == UpsertByUserId(w.subs, user, subscriptionData, w.nextId)
             U == UpdateUser(w.users, user, [plan |-> planId, isSubActive |-> TRUE])
         IN Result(Stored(w, U, S), 200, "OK", {})

\* mutant: the cancellation event frees the plan but leaves isSubActive alone
WebhookSubscriptionDeletedKeepingFlag(w, event) ==
    LET subscription == FindOneByStripeSubscriptionId(w.subs, event.sid) IN
    IF subscription = NoRec THEN Result(w, 200, "SUBSCRIPTION_NOT_FOUND_LOGGED", {})
    ELSE LET S == (w.subs \ {subscription})
                  \cup {[subscription EXCEPT !.status = "canceled"]}
             U == UpdateUser(w.users, subscription.userId, [plan |-> "free"])
         IN Result(Stored(w, U, S), 200, "OK", {})

\* lines 273-291: customer.subscription.deleted
WebhookSubscriptionDeleted(w, event) ==
    LET subscription == FindOneByStripeSubscriptionId(w.subs, event.sid) IN
    IF subscription = NoRec THEN Result(w, 200, "SUBSCRIPTION_NOT_FOUND_LOGGED", {})
    ELSE LET S == (w.subs \ {subscription})
                  \cup {[subscription EXCEPT !.status = "canceled"]}
             U == UpdateUser(w.users, subscription.userId,
                             [plan |-> "free", isSubActive |-> FALSE])
         IN Result(Stored(w, U, S), 200, "OK", {})

\* mutant: each application pushes the due date one period on
WebhookInvoicePaidExtending(w, event) ==
    LET subscription == FindOneByStripeSubscriptionId(w.subs, event.sid) IN
    IF event.sid = Null \/ subscription = NoRec THEN Result(w, 200, "OK", {})
    ELSE LET S == (w.subs \ {subscription})
                  \cup {[subscription EXCEPT !.status = "active",
                                              !.dueDate = subscription.dueDate + 1]}
             U == UpdateUser(w.users, subscription.userId, [isSubActive |-> TRUE])
         IN Result(Stored(w, U, S), 200, "OK", {})

\* lines 293-312: invoice.payment_succeeded
WebhookInvoicePaid(w, event) ==
    LET subscription == FindOneByStripeSubscriptionId(w.subs, event.sid) IN
    IF event.sid = Null \/ subscription = NoRec THEN Result(w, 200, "OK", {})
    ELSE LET S == (w.subs \ {subscription})
                  \cup {[subscription EXCEPT !.status = "active",
                                              !.dueDate = event.period + 1]}
             U == UpdateUser(w.users, subscription.userId, [isSubActive |-> TRUE])
         IN Result(Stored(w, U, S), 200, "OK", {})

\* mutant: a failed invoice marks the record overdue and withdraws access
handleStripeWebhookDunning(w, event) ==
    LET subscription == FindOneByStripeSubscriptionId(w.subs, event.sid) IN
    CASE event.type \in {"customer.subscription.created", "customer.subscription.updated"} ->
            WebhookSubscriptionUpserted(w, event)
      [] event.type = "customer.subscription.deleted" -> WebhookSubscriptionDeleted(w, event)
      [] event.type = "invoice.payment_succeeded" -> WebhookInvoicePaid(w, event)
      [] event.type = "invoice.payment_failed" /\ event.sid # Null /\ subscription # NoRec ->
            Result(Stored(w, UpdateUser(w.users, subscription.userId, [isSubActive |-> FALSE]),
                          (w.subs \ {subscription})
                              \cup {[subscription EXCEPT !.status = "overdue"]}),
                   200, "OK", {})
      [] OTHER -> Result(w, 200, "UNHANDLED_EVENT_TYPE", {})

handleStripeWebhook(w, event) ==
    CASE event.type \in {"customer.subscription.created", "customer.subscription.updated"} ->
            WebhookSubscriptionUpserted(w, event)
      [] event.type = "customer.subscription.deleted" -> WebhookSubscriptionDeleted(w, event)
      [] event.type = "invoice.payment_succeeded" -> WebhookInvoicePaid(w, event)
      [] OTHER -> Result(w, 200, "UNHANDLED_EVENT_TYPE", {})

\* the events the provider can send in state w: about a subscription it holds
\* (an invoice may be about none)
Events(w) ==
    {e \in [type : EventTypes, sid : 0..Len(w.stripeSubs), status : StripeStatuses,
            price : EventPrices, period : Periods] :
        e.sid = Null => e.type \in {"invoice.payment_succeeded", "invoice.payment_failed"}}

(***************************************************************************)
(* The Stripe webhook route: the signature check of                        *)
(* stripe.webhooks.constructEvent, then the handler.                       *)
(***************************************************************************)
Signatures == {"absent", "wrong", "valid"}

\* mutant: the signature is not checked
ConstructEventAcceptsAll(sig) == TRUE

\* stripe.webhooks.constructEvent(req.body, sig, secret) returns (TRUE) or throws
ConstructEventOk(sig) == sig = "valid"

StripeWebhookRoute(w, sig, event) ==
    IF ~ConstructEventOk(sig) THEN Result(w, 400, "WEBHOOK_SIGNATURE", {})
    ELSE handleStripeWebhook(w, event)

(***************************************************************************)
(* subscriptionService.checkAndDeactivateExpiredSubscriptions, the daily   *)
(* sweep.                                                                  *)
(***************************************************************************)
\* expired: the users whose trialEndDate lies before the time of the run
UsersToDeactivate(U, expired) ==
    {u \in Users : /\ U[u].plan # "free"
                   /\ u \in expired
                   /\ U[u].isSubActive
                   /\ U[u].subscriptionId = Null}

checkAndDeactivateExpiredSubscriptions(w, expired) ==
    LET gone == UsersToDeactivate(w.users, expired)
        U == [u \in Users |->
                IF u \in gone
                THEN Merge(w.users[u], [plan |-> "free", isSubActive |-> FALSE])
                ELSE w.users[u]]
    IN Result(Stored(w, U, w.subs), 200, "OK", {})

(***************************************************************************)
(* The plan enforcement middleware.  A check answers "next" when it lets   *)
(* the request through, and the error code it fails with otherwise.        *)
(***************************************************************************)
Infinity == -1      \* a ceiling no count reaches
maxClientsFree == 3
maxProjectsFree == 5
maxAIGenerationsPerMonthFree == 5

Features ==
    {"hasAdvancedMeasurements", "hasProfessionalPatternDesigner", "hasCalendarScheduling",
     "hasInvoiceGeneration", "hasAnalyticsDashboard", "hasClientPortal",
     "hasTeamCollaboration", "hasCustomBranding"}

PremiumFeatures == Features \ {"hasTeamCollaboration", "hasCustomBranding"}

PLAN_LIMITS(plan) ==
    CASE plan = "free" ->
            [maxClients |-> maxClientsFree, maxProjects |-> maxProjectsFree,
             maxAIGenerationsPerMonth |-> maxAIGenerationsPerMonthFree, features |-> {}]
      [] plan = "premium" ->
            [maxClients |-> Infinity, maxProjects |-> Infinity,
             maxAIGenerationsPerMonth |-> Infinity, features |-> PremiumFeatures]
      [] plan = "enterprise" ->
            [maxClients |-> Infinity, maxProjects |-> Infinity,
             maxAIGenerationsPerMonth |-> Infinity, features |-> Features]

\* count >= limit, where the limit may be Infinity
AtLeast(count, limit) == limit # Infinity /\ count >= limit

\* ApiError: the HTTP status of the error a check fails with
GateStatus(code) ==
    CASE code = "next" -> 200
      [] code = "USER_NOT_FOUND" -> 404
      [] OTHER -> 403

\* mutant: the plan's feature row is not consulted
requireFeatureAnyPlan(U, userId, feature) ==
    IF userId \notin Users THEN "USER_NOT_FOUND"
    ELSE IF ~U[userId].isSubActive THEN "SUBSCRIPTION_INACTIVE"
    ELSE "next"

requireFeature(U, userId, feature) ==
    IF userId \notin Users THEN "USER_NOT_FOUND"
    ELSE IF ~U[userId].isSubActive THEN "SUBSCRIPTION_INACTIVE"
    ELSE IF feature \notin PLAN_LIMITS(U[userId].plan).features THEN "FEATURE_NOT_AVAILABLE"
    ELSE "next"

checkClientLimit(U, G, userId) ==
    IF userId \notin Users THEN "USER_NOT_FOUND"
    ELSE IF AtLeast(G[userId].clients, PLAN_LIMITS(U[userId].plan).maxClients)
    THEN "PLAN_CLIENT_LIMIT_REACHED"
    ELSE "next"

checkProjectLimit(U, G, userId) ==
    IF userId \notin Users THEN "USER_NOT_FOUND"
    ELSE IF AtLeast(G[userId].projects, PLAN_LIMITS(U[userId].plan).maxProjects)
    THEN "PLAN_PROJECT_LIMIT_REACHED"
    ELSE "next"

checkAIGenerationLimit(U, G, userId) ==
    IF userId \notin Users THEN "USER_NOT_FOUND"
    ELSE IF AtLeast(G[userId].aiGenerationsThisMonth,
                    PLAN_LIMITS(U[userId].plan).maxAIGenerationsPerMonth)
    THEN "PLAN_AI_LIMIT_REACHED"
    ELSE "next"

GateChecks == {"checkClientLimit", "checkProjectLimit", "checkAIGenerationLimit"} \cup Features

\* the middleware named by check (a feature name: requireFeature of that feature)
GateCheck(U, G, userId, check) ==
    CASE check = "checkClientLimit" -> checkClientLimit(U, G, userId)
      [] check = "checkProjectLimit" -> checkProjectLimit(U, G, userId)
      [] check = "checkAIGenerationLimit" -> checkAIGenerationLimit(U, G, userId)
      [] OTHER -> requireFeature(U, userId, check)

\* the middleware chain of POST /clients after isAuth: the handler alone
ClientPostChain(U, G, userId) == "next"

(***************************************************************************)
(* The Flutterwave revision: the payment helpers and the webhook route and *)
(* the verify controller, and the service functions they call.  A          *)
(* transaction is [userId, planId, status]; its reference is its index.    *)
(***************************************************************************)
TxStatuses == {"pending", "successful", "failed"}

\* flutterwavePlanIds: a payment plan id for the plans of the catalog, none otherwise
flutterwavePlanIds(planKey) == IF planKey \in PlanIdEnum THEN planKey ELSE ""

\* initializeSubscriptionPayment: the transaction reference it returns (0: it threw)
initializeSubscriptionPayment(w, userId, planKey, fail) ==
    IF flutterwavePlanIds(planKey) = "" THEN Result(w, 400, "FLW_PLAN_MISSING", {})
    ELSE IF fail THEN Result(w, 500, "FLW_INIT_FAILED", {"Transaction.initialize"})
    ELSE Result([w EXCEPT !.flwTx = Append(@, [userId |-> userId, planId |-> planKey,
                                               status |-> "pending"])],
                200, "OK", {"Transaction.initialize"})

\* Checkout Initiator: subscribe(userId, planId) of the Flutterwave revision
subscribeFlutterwave(w, userId, planId, fail) ==
    IF userId \notin Users THEN Result(w, 404, "USER_NOT_FOUND", {})
    ELSE IF planId = "free"
    THEN LET S == {r \in w.subs : r.userId # userId}
             U == UpdateUser(w.users, userId,
                             [plan |-> "free", isSubActive |-> TRUE, subscriptionId |-> Null])
         IN Result(Stored(w, U, S), 200, "OK", {})
    ELSE LET init == initializeSubscriptionPayment(w, userId, planId, fail) IN
         IF init.code # "OK" THEN init
         ELSE LET w1 == init.w
                  data == [userId |-> userId, planId |-> planId, status |-> "pending",
                           providerTxRef |-> Len(w1.flwTx)]
                  S == UpsertByUserId(w1.subs, userId, data, w1.nextId)
                  U == UpdateUser(w1.users, userId, [plan |-> planId, isSubActive |-> FALSE])
              IN Result(Stored(w1, U, S), 200, "OK", init.calls)

\* the activation both triggers share
activateSubscription(w, userId, planId, txRef, now, calls) ==
    LET data == [userId |-> userId, planId |-> planId, status |-> "active",
                 providerTxRef |-> txRef, startDate |-> now, dueDate |-> now + 1]
        S == UpsertByUserId(w.subs, userId, data, w.nextId)
        U == UpdateUser(w.users, userId,
                        [plan |-> planId, isSubActive |-> TRUE,
                         subscriptionId |-> FindOneByUserId(S, userId).id])
    IN Result(Stored(w, U, S), 200, "OK", calls)

FlwEvents == {"charge.completed", "subscription.cancelled", "transfer.completed"}

\* Webhook Consumer: payload is [event, status, txRef, hasMeta, now]
handleFlutterwaveWebhook(w, payload) ==
    LET tx == w.flwTx[payload.txRef] IN
    IF payload.event = "charge.completed"
    THEN IF payload.status # "successful" THEN Result(w, 200, "PAYMENT_FAILED_LOGGED", {})
         ELSE IF ~payload.hasMeta THEN Result(w, 200, "NO_METADATA_DROPPED", {})
         ELSE activateSubscription(w, tx.userId, tx.planId, payload.txRef, payload.now, {})
    ELSE IF payload.event = "subscription.cancelled"
    THEN LET hit == {r \in w.subs : r.providerTxRef = payload.txRef} IN
         IF hit = {} THEN Result(w, 200, "SUBSCRIPTION_NOT_FOUND_LOGGED", {})
         ELSE LET r == CHOOSE x \in hit : TRUE
                  S == (w.subs \ {r}) \cup {[r EXCEPT !.status = "canceled"]}
                  U == UpdateUser(w.users, r.userId,
                                  [plan |-> "free", isSubActive |-> FALSE])
              IN Result(Stored(w, U, S), 200, "OK", {})
    ELSE Result(w, 200, "UNHANDLED_EVENT_TYPE", {})

Payloads(w) ==
    [event : FlwEvents, status : {"successful", "failed"}, txRef : 1..Len(w.flwTx),
     hasMeta : BOOLEAN, now : Periods]

\* verifyWebhookSignature(req): TRUE when it returns, FALSE when it throws
verifyWebhookSignature(signature, secretSet) ==
    IF ~secretSet THEN FALSE
    ELSE IF signature = "absent" \/ signature # "valid" THEN FALSE
    ELSE TRUE

\* the Flutterwave webhook route
FlutterwaveWebhookRoute(w, signature, secretSet, payload) ==
    IF ~verifyWebhookSignature(signature, secretSet)
    THEN Result(w, 401, "WEBHOOK_SIGNATURE", {})
    ELSE handleFlutterwaveWebhook(w, payload)

\* verifyTransaction(tx_ref): what the provider says of the reference (0: it threw)
verifyTransaction(w, ref, fail) ==
    IF fail \/ ref \notin 1..Len(w.flwTx) THEN [status |-> "error"]
    ELSE [status |-> w.flwTx[ref].status]

\* Callback Verifier: verifyAndActivateFromCallback({ status, tx_ref, transaction_id })
verifyAndActivateFromCallback(w, query, fail, metaReturned, now) ==
    LET ref == IF query.tx_ref # Null THEN query.tx_ref ELSE query.transaction_id
        calls == {"Transaction.verify"}
    IN
    IF ref = Null THEN Result(w, 400, "BAD_REQUEST", {})
    ELSE LET res == verifyTransaction(w, ref, fail) IN
         IF res.status = "error" THEN Result(w, 500, "FLW_VERIFY_FAILED", calls)
         ELSE IF res.status # "successful" THEN Result(w, 200, "PAYMENT_NOT_COMPLETED", calls)
         ELSE LET pending == {r \in w.subs : r.providerTxRef = ref /\ r.status = "pending"}
                  tx == w.flwTx[ref]
              IN IF pending # {}
                 THEN LET r == CHOOSE x \in pending : TRUE
                      IN activateSubscription(w, r.userId, r.planId, ref, now, calls)
                 ELSE IF metaReturned
                 THEN activateSubscription(w, tx.userId, tx.planId, ref, now, calls)
                 ELSE Result(w, 404, "PENDING_SUBSCRIPTION_NOT_FOUND", calls)

QueryStatuses == {"absent", "successful", "failed"}

\* mutant: the controller acts on the redirect's own status parameter
verifyCallbackTrustingStatus(w, query, fail, metaReturned, now) ==
    IF query.status = "absent" \/ (query.tx_ref = Null /\ query.transaction_id = Null)
    THEN Result(w, 400, "BAD_REQUEST", {})
    ELSE IF query.status = "successful"
              /\ (IF query.tx_ref # Null THEN query.tx_ref ELSE query.transaction_id)
                     \in 1..Len(w.flwTx)
    THEN LET ref == IF query.tx_ref # Null THEN query.tx_ref ELSE query.transaction_id
         IN activateSubscription(w, w.flwTx[ref].userId, w.flwTx[ref].planId, ref, now, {})
    ELSE verifyAndActivateFromCallback(w, query, fail, metaReturned, now)

\* the verifyCallback controller: query is [status, tx_ref, transaction_id]
verifyCallback(w, query, fail, metaReturned, now) ==
    IF query.status = "absent" \/ (query.tx_ref = Null /\ query.transaction_id = Null)
    THEN Result(w, 400, "BAD_REQUEST", {})
    ELSE verifyAndActivateFromCallback(w, query, fail, metaReturned, now)

Queries(w) ==
    [status : QueryStatuses, tx_ref : 0..Len(w.flwTx), transaction_id : 0..Len(w.flwTx)]

(***************************************************************************)
(* Requests in flight.  A request is [op, pc, planId, price, status,       *)
(* period, sid, recId]: the operation and its inputs, the database or      *)
(* provider call it is at, and what its earlier calls returned.            *)
(***************************************************************************)
Procs == {"p1", "p2"}

Idle ==
    [op |-> "none", pc |-> "idle", planId |-> "free", price |-> PriceOther,
     status |-> "active", period |-> 0, sid |-> Null, recId |-> Null]

(***************************************************************************)
(* Initial states.                                                         *)
(***************************************************************************)
\* a User document as the schema's defaults leave it
NewUser(customer) ==
    [plan |-> "free", isSubActive |-> TRUE, subscriptionId |-> Null,
     stripeCustomerId |-> customer]

\* a new user, whose document carries the provider's customer id or not
Init ==
    /\ users \in [Users -> {NewUser(c) : c \in Customers \cup {NoCustomer}}]
    /\ \A u \in Users : users[u].stripeCustomerId \in {u, NoCustomer}
    /\ subs = {}
    /\ nextId = 1
    /\ stripeSubs = <<>>
    /\ flwTx = <<>>
    /\ usage = [u \in Users |-> [clients |-> 0, projects |-> 0, aiGenerationsThisMonth |-> 0]]
    /\ procs = [p \in Procs |-> Idle]

\* the plan enforcement checks are functions of the user's plan, flag and counts:
\* every plan and flag, and an AI count below and at the free ceiling
InitGate ==
    /\ users \in [Users -> [plan : Plans, isSubActive : BOOLEAN, subscriptionId : {Null},
                            stripeCustomerId : {NoCustomer}]]
    /\ subs = {}
    /\ nextId = 1
    /\ stripeSubs = <<>>
    /\ flwTx = <<>>
    /\ usage \in [Users -> [clients : {0}, projects : {0},
                            aiGenerationsThisMonth : {0, maxAIGenerationsPerMonthFree}]]
    /\ procs = [p \in Procs |-> Idle]

(***************************************************************************)
(* Requests.  A step serves one request to its end and leaves the state    *)
(* the service call hands back.  The inputs are enumerated up to the       *)
(* fields the code reads on the path they take.                            *)
(***************************************************************************)
Serve(res) ==
    /\ res.w.nextId <= MaxIds + 1
    /\ Len(res.w.stripeSubs) <= MaxStripeSubs
    /\ Len(res.w.flwTx) <= MaxTx
    /\ users' = res.w.users
    /\ subs' = res.w.subs
    /\ nextId' = res.w.nextId
    /\ stripeSubs' = res.w.stripeSubs
    /\ flwTx' = res.w.flwTx
    /\ UNCHANGED <<usage, procs>>

SubscribeInputs ==
    {i \in [userId : Users \cup {NoSuchUser}, planId : RequestedPlans,
            paymentMethodId : PaymentMethods \cup {NoPaymentMethod},
            fail : SubscribeFailPoints, period : Periods] :
        /\ i.userId = NoSuchUser =>
              i.planId = "free" /\ i.paymentMethodId = NoPaymentMethod /\ i.fail = "none"
        /\ (i.planId # "free" /\ i.paymentMethodId = NoPaymentMethod) => i.fail = "none"
        /\ (i.fail # "none" \/ i.planId \notin PlanIdEnum
              \/ i.paymentMethodId = NoPaymentMethod) => i.period = 0}

\* POST /subscriptions
Subscribe ==
    \E i \in SubscribeInputs :
        Serve(subscribe(World, i.userId, i.planId, i.paymentMethodId, i.fail, i.period))

\* POST /subscriptions/cancel
CancelSubscription ==
    \E userId \in Users \cup {NoSuchUser}, fail \in BOOLEAN :
        Serve(cancelSubscription(World, userId, fail))

\* the events of Events(w), up to the fields the handler reads for their type
StripeEvents(w) ==
    {e \in Events(w) :
        /\ e.type \notin {"customer.subscription.created", "customer.subscription.updated"} =>
              e.status = "active" /\ e.price = PricePremium
        /\ e.type \in {"customer.subscription.deleted", "invoice.payment_failed"} =>
              e.period = 0
        /\ e.type = "invoice.payment_failed" => e.sid = Null}

\* POST /webhook/stripe
StripeWebhook ==
    \E sig \in Signatures, event \in StripeEvents(World) :
        /\ sig # "valid" => event.type = "invoice.payment_failed"
        /\ Serve(StripeWebhookRoute(World, sig, event))

\* the cron job, run when the trials of the users in expired have ended
Sweep ==
    \E expired \in SUBSET Users :
        Serve(checkAndDeactivateExpiredSubscriptions(World, expired))

\* a subscription made at the provider itself, outside this service
ProviderSideSubscription ==
    \E customer \in Customers :
        /\ Len(stripeSubs) < MaxStripeSubs
        /\ stripeSubs' = Append(stripeSubs, [customer |-> customer, status |-> "active"])
        /\ UNCHANGED <<users, subs, nextId, flwTx, usage, procs>>

\* DELETE account
DeleteAccount ==
    \E userId \in Users \cup {NoSuchUser}, fail \in BOOLEAN :
        Serve(deleteAccount(World, userId, fail))

\* POST /admin/users/:id/plan
AdminChangeUserPlan ==
    \E userId \in Users \cup {NoSuchUser}, planId \in RequestedPlans,
       fail \in SubscribeFailPoints :
        /\ (userId = NoSuchUser \/ planId # "free") => fail = "none"
        /\ Serve(changeUserPlan(World, userId, planId, fail, 0))

Next ==
    \/ Subscribe
    \/ CancelSubscription
    \/ StripeWebhook
    \/ Sweep
    \/ ProviderSideSubscription
    \/ DeleteAccount
    \/ AdminChangeUserPlan

Spec == Init /\ [][Next]_vars

(***************************************************************************)
(* The Flutterwave revision.                                               *)
(***************************************************************************)
FlwSubscribe ==
    \E userId \in Users \cup {NoSuchUser}, planId \in RequestedPlans, fail \in BOOLEAN :
        Serve(subscribeFlutterwave(World, userId, planId, fail))

\* the provider settles a transaction
FlwSettles ==
    \E ref \in 1..Len(flwTx), outcome \in {"successful", "failed"} :
        /\ flwTx[ref].status = "pending"
        /\ flwTx' = [flwTx EXCEPT ![ref].status = outcome]
        /\ UNCHANGED <<users, subs, nextId, stripeSubs, usage, procs>>

\* the payloads of Payloads(w), up to the fields the handler reads for their event
FlwPayloads(w) ==
    {p \in Payloads(w) :
        /\ p.event # "charge.completed" => p.status = "successful" /\ p.hasMeta
        /\ (p.event # "charge.completed" \/ p.status # "successful" \/ ~p.hasMeta) => p.now = 0
        /\ p.event = "transfer.completed" => p.txRef = 1}

\* POST /webhook/flutterwave
FlutterwaveWebhook ==
    \E signature \in Signatures, secretSet \in BOOLEAN, payload \in FlwPayloads(World) :
        /\ ~verifyWebhookSignature(signature, secretSet) => payload.event = "transfer.completed"
        /\ Serve(FlutterwaveWebhookRoute(World, signature, secretSet, payload))

\* GET /subscriptions/verify
VerifyCallback ==
    \E query \in Queries(World), fail \in BOOLEAN, metaReturned \in BOOLEAN, now \in Periods :
        /\ (query.tx_ref # Null /\ query.transaction_id # Null) =>
              query.transaction_id = query.tx_ref
        /\ (fail \/ query.status = "absent") => (~metaReturned /\ now = 0)
        /\ Serve(verifyCallback(World, query, fail, metaReturned, now))

NextFlw ==
    \/ FlwSubscribe
    \/ FlwSettles
    \/ FlutterwaveWebhook
    \/ VerifyCallback

SpecFlw == Init /\ [][NextFlw]_vars

(***************************************************************************)
(* The resources the plan enforcement middleware counts.                   *)
(***************************************************************************)
\* POST /clients: isAuth, createClient
CreateClient ==
    \E userId \in Users :
        /\ usage[userId].clients < MaxClientsModelled
        /\ usage' = IF ClientPostChain(users, usage, userId) = "next"
                    THEN [usage EXCEPT ![userId].clients = @ + 1]
                    ELSE usage
        /\ UNCHANGED <<users, subs, nextId, stripeSubs, flwTx, procs>>

\* DELETE /clients/:clientId of a client the user owns
DeleteClient ==
    \E userId \in Users :
        /\ usage[userId].clients > 0
        /\ usage' = [usage EXCEPT ![userId].clients = @ - 1]
        /\ UNCHANGED <<users, subs, nextId, stripeSubs, flwTx, procs>>

\* POST /projects: isAuth, createProject
CreateProject ==
    \E userId \in Users :
        /\ usage[userId].projects < MaxProjectsModelled
        /\ usage' = [usage EXCEPT ![userId].projects = @ + 1]
        /\ UNCHANGED <<users, subs, nextId, stripeSubs, flwTx, procs>>

NextGate ==
    \/ CreateClient
    \/ DeleteClient
    \/ CreateProject

SpecGate == InitGate /\ [][NextGate]_vars

(***************************************************************************)
(* Concurrent requests.  Two requests about one user run at once; a step   *)
(* is one database or provider call of subscribe (paid plan, payment       *)
(* method given), of the customer.subscription.updated case of             *)
(* handleStripeWebhook, or of cancelSubscription.  The provider holds one  *)
(* subscription of the user's customer from the start, the one the events  *)
(* are about.                                                              *)
(***************************************************************************)
RaceUser == CHOOSE u \in Users : TRUE

ProviderSide == <<[customer |-> RaceUser, status |-> "active"]>>

RaceEventSid == Len(ProviderSide)

RaceOps ==
    {[Idle EXCEPT !.op = "subscribe", !.planId = pl, !.period = t] :
        pl \in PlanIdEnum, t \in Periods}
    \cup {[Idle EXCEPT !.op = "webhook", !.price = pr, !.status = st, !.period = t] :
        pr \in {PricePremium, PriceEnterprise}, st \in StripeStatuses, t \in Periods}
    \cup {[Idle EXCEPT !.op = "cancel"]}

InitRace ==
    /\ users \in [Users -> {NewUser(c) : c \in Customers \cup {NoCustomer}}]
    /\ \A u \in Users : users[u].stripeCustomerId \in {u, NoCustomer}
    /\ subs = {}
    /\ nextId = 1
    /\ stripeSubs = ProviderSide
    /\ flwTx = <<>>
    /\ usage = [u \in Users |-> [clients |-> 0, projects |-> 0, aiGenerationsThisMonth |-> 0]]
    /\ procs = [p \in Procs |-> Idle]

\* the request p moves to q; the collections named are the ones its call writes
Goes(p, q) == procs' = [procs EXCEPT ![p] = q]

At(p, op, pc) == procs[p].op = op /\ procs[p].pc = pc

\* the id counter after the store holds S
IdAfter(S) == IF \E r \in S : r.id = nextId THEN nextId + 1 ELSE nextId

\* mutant: the record is inserted when the request's earlier findOne found none
RaceStoreRecordFromRead(S, q, data, id) ==
    IF q.op = "subscribe" /\ q.recId = Null
    THEN S \cup {NewDoc(id, data)}
    ELSE UpsertByUserId(S, RaceUser, data, id)

\* the write of a record by a request: Subscription.findOneAndUpdate({ userId }, data,
\* { upsert: true })
RaceStoreRecord(S, q, data, id) == UpsertByUserId(S, RaceUser, data, id)

\* subscribe, line 51: Subscription.findOne({ userId })
RaceSubscribeFind(p) ==
    \E o \in RaceOps :
        LET existingSubscription == FindOneByUserId(subs, RaceUser) IN
        /\ procs[p].pc = "idle"
        /\ o.op = "subscribe"
        /\ Goes(p, [o EXCEPT !.pc = "provider",
                             !.sid = IF existingSubscription = NoRec THEN Null
                                     ELSE existingSubscription.stripeSubscriptionId,
                             !.recId = existingSubscription.id])
        /\ UNCHANGED <<users, subs, nextId, stripeSubs, flwTx, usage>>

\* subscribe, lines 53-64: updateStripeSubscription or createStripeSubscription
RaceSubscribeProvider(p) ==
    LET q == procs[p] IN
    /\ At(p, "subscribe", "provider")
    /\ IF q.recId # Null /\ q.sid # Null
       THEN /\ Goes(p, [q EXCEPT !.pc = IF ProviderSubLive(World, q.sid)
                                        THEN "upsert" ELSE "done"])
            /\ UNCHANGED stripeSubs
       ELSE /\ stripeSubs' = Append(stripeSubs, [customer |-> RaceUser, status |-> "active"])
            /\ Goes(p, [q EXCEPT !.pc = "upsert", !.sid = Len(stripeSubs) + 1])
    /\ UNCHANGED <<users, subs, nextId, flwTx, usage>>

\* subscribe, lines 87-102: Subscription.findOneAndUpdate({ userId }, subscriptionData, ...)
RaceSubscribeUpsert(p) ==
    LET q == procs[p]
        subscriptionData ==
            [userId |-> RaceUser, planId |-> q.planId, status |-> "active",
             stripeCustomerId |-> RaceUser, stripeSubscriptionId |-> q.sid,
             startDate |-> q.period, dueDate |-> q.period + 1]
        S == RaceStoreRecord(subs, q, subscriptionData, nextId)
    IN
    /\ At(p, "subscribe", "upsert")
    /\ subs' = S
    /\ nextId' = IdAfter(S)
    /\ Goes(p, [q EXCEPT !.pc = "user",
                         !.recId = (CHOOSE r \in S : r.stripeSubscriptionId = q.sid
                                                     /\ r.planId = q.planId
                                                     /\ r.startDate = q.period).id])
    /\ UNCHANGED <<users, stripeSubs, flwTx, usage>>

\* subscribe, lines 104-108: User.findByIdAndUpdate(userId, { plan, isSubActive, subscriptionId })
RaceSubscribeUser(p) ==
    LET q == procs[p] IN
    /\ At(p, "subscribe", "user")
    /\ users' = UpdateUser(users, RaceUser,
                           [plan |-> q.planId, isSubActive |-> TRUE, subscriptionId |-> q.recId])
    /\ Goes(p, [q EXCEPT !.pc = "done"])
    /\ UNCHANGED <<subs, nextId, stripeSubs, flwTx, usage>>

\* webhook, lines 239-242: User.findOne({ stripeCustomerId })
RaceWebhookFind(p) ==
    \E o \in RaceOps :
        LET user == FindUserByStripeCustomerId(users, stripeSubs[RaceEventSid].customer) IN
        /\ procs[p].pc = "idle"
        /\ o.op = "webhook"
        /\ Goes(p, [o EXCEPT !.pc = IF user = NoSuchUser THEN "done" ELSE "upsert",
                             !.sid = RaceEventSid])
        /\ UNCHANGED <<users, subs, nextId, stripeSubs, flwTx, usage>>

\* webhook, lines 244-264: the upsert, which throws when a validator fails
RaceWebhookUpsert(p) ==
    LET q == procs[p]
        subscriptionData ==
            [userId |-> RaceUser, planId |-> EventPlanId(q.price), status |-> q.status,
             stripeCustomerId |-> RaceUser, stripeSubscriptionId |-> q.sid,
             startDate |-> q.period, dueDate |-> q.period + 1]
        S == RaceStoreRecord(subs, q, subscriptionData, nextId)
    IN
    /\ At(p, "webhook", "upsert")
    /\ IF ValidUpdate(subscriptionData)
       THEN /\ subs' = S
            /\ nextId' = IdAfter(S)
            /\ Goes(p, [q EXCEPT !.pc = "user", !.planId = EventPlanId(q.price)])
       ELSE /\ Goes(p, [q EXCEPT !.pc = "done"])
            /\ UNCHANGED <<subs, nextId>>
    /\ UNCHANGED <<users, stripeSubs, flwTx, usage>>

\* webhook, lines 266-269: User.findByIdAndUpdate(user._id, { plan, isSubActive })
RaceWebhookUser(p) ==
    LET q == procs[p] IN
    /\ At(p, "webhook", "user")
    /\ users' = UpdateUser(users, RaceUser, [plan |-> q.planId, isSubActive |-> TRUE])
    /\ Goes(p, [q EXCEPT !.pc = "done"])
    /\ UNCHANGED <<subs, nextId, stripeSubs, flwTx, usage>>

\* cancelSubscription, lines 143-148: Subscription.findOne({ userId }) and the guard
RaceCancelFind(p) ==
    \E o \in RaceOps :
        LET subscription == FindOneByUserId(subs, RaceUser) IN
        /\ procs[p].pc = "idle"
        /\ o.op = "cancel"
        /\ Goes(p, IF subscription = NoRec \/ subscription.stripeSubscriptionId = Null
                   THEN [o EXCEPT !.pc = "done"]
                   ELSE [o EXCEPT !.pc = "provider",
                                  !.sid = subscription.stripeSubscriptionId,
                                  !.recId = subscription.id])
        /\ UNCHANGED <<users, subs, nextId, stripeSubs, flwTx, usage>>

\* cancelSubscription, line 151: cancelStripeSubscription
RaceCancelProvider(p) ==
    LET q == procs[p] IN
    /\ At(p, "cancel", "provider")
    /\ IF ProviderSubLive(World, q.sid)
       THEN /\ stripeSubs' = ProviderCancel(World, q.sid).stripeSubs
            /\ Goes(p, [q EXCEPT !.pc = "save"])
       ELSE /\ Goes(p, [q EXCEPT !.pc = "done"])
            /\ UNCHANGED stripeSubs
    /\ UNCHANGED <<users, subs, nextId, flwTx, usage>>

\* cancelSubscription, lines 153-154: subscription.status = "canceled"; save()
RaceCancelSave(p) ==
    LET q == procs[p] IN
    /\ At(p, "cancel", "save")
    /\ subs' = {IF r.id = q.recId THEN [r EXCEPT !.status = "canceled"] ELSE r : r \in subs}
    /\ Goes(p, [q EXCEPT !.pc = "user"])
    /\ UNCHANGED <<users, nextId, stripeSubs, flwTx, usage>>

\* cancelSubscription, lines 156-159: User.findByIdAndUpdate(userId, { plan, subscriptionId })
RaceCancelUser(p) ==
    LET q == procs[p] IN
    /\ At(p, "cancel", "user")
    /\ users' = UpdateUser(users, RaceUser, [plan |-> "free", subscriptionId |-> Null])
    /\ Goes(p, [q EXCEPT !.pc = "done"])
    /\ UNCHANGED <<subs, nextId, stripeSubs, flwTx, usage>>

NextRace ==
    \E p \in Procs :
        \/ RaceSubscribeFind(p)
        \/ RaceSubscribeProvider(p)
        \/ RaceSubscribeUpsert(p)
        \/ RaceSubscribeUser(p)
        \/ RaceWebhookFind(p)
        \/ RaceWebhookUpsert(p)
        \/ RaceWebhookUser(p)
        \/ RaceCancelFind(p)
        \/ RaceCancelProvider(p)
        \/ RaceCancelSave(p)
        \/ RaceCancelUser(p)

SpecRace == InitRace /\ [][NextRace]_vars

(***************************************************************************)
(* The same requests run one after the other, by the service functions.    *)
(***************************************************************************)
AllDone == \A p \in Procs : procs[p].pc = "done"

\* the state the concurrent requests started from
RaceStart ==
    [World EXCEPT !.users = [u \in Users |-> NewUser(users[u].stripeCustomerId)],
                  !.subs = {}, !.nextId = 1, !.stripeSubs = ProviderSide]

\* the whole call of request q, from state w
RunSerial(w, q) ==
    CASE q.op = "subscribe" ->
            subscribe(w, RaceUser, q.planId, CHOOSE pm \in PaymentMethods : TRUE,
                      "none", q.period).w
      [] q.op = "webhook" ->
            handleStripeWebhook(w, [type |-> "customer.subscription.updated",
                                    sid |-> RaceEventSid, status |-> q.status,
                                    price |-> q.price, period |-> q.period]).w
      [] q.op = "cancel" -> cancelSubscription(w, RaceUser, FALSE).w
      [] OTHER -> w

\* what the user is entitled to and what the user's record says
Billing(w) ==
    LET user == w.users[RaceUser]
        rec == FindOneByUserId(w.subs, RaceUser)
    IN [plan |-> user.plan, isSubActive |-> user.isSubActive,
        hasSubscriptionId |-> user.subscriptionId # Null,
        hasRecord |-> rec # NoRec,
        planId |-> IF rec = NoRec THEN "free" ELSE rec.planId,
        status |-> IF rec = NoRec THEN "none" ELSE rec.status]

SerialOrders == {o \in [1..Cardinality(Procs) -> Procs] : \A p \in Procs : \E i \in DOMAIN o : o[i] = p}

(***************************************************************************)
(* Properties.  A service call is a function of the state, so a property   *)
(* of a call is stated of its result in every reachable state, for every   *)
(* input.                                                                  *)
(***************************************************************************)
RecordOf(w, u) == FindOneByUserId(w.subs, u)

\* C1: subscribe(userId, "free") ends, whatever the prior state, with plan = free,
\* isSubActive = true, subscriptionId = null and no Subscription Record for the
\* user, and makes no call to the payment provider.
C1_FreeSubscribeUnconditional ==
    \A i \in SubscribeInputs :
        (i.userId \in Users /\ i.planId = "free") =>
            LET r == subscribe(World, i.userId, i.planId, i.paymentMethodId, i.fail, i.period)
            IN /\ r.w.users[i.userId].plan = "free"
               /\ r.w.users[i.userId].isSubActive
               /\ r.w.users[i.userId].subscriptionId = Null
               /\ RecordOf(r.w, i.userId) = NoRec
               /\ r.calls = {}

\* C2: when subscribe(userId, paidPlan) has returned successfully, and no
\* activation event has been applied yet, isSubActive is false and requireFeature
\* denies every premium-only feature.
C2_NoPrematureEntitlement ==
    \A i \in SubscribeInputs :
        (i.userId \in Users /\ i.planId \in PlanIdEnum) =>
            LET r == subscribe(World, i.userId, i.planId, i.paymentMethodId, i.fail, i.period)
            IN r.code = "OK" =>
                  /\ ~r.w.users[i.userId].isSubActive
                  /\ \A f \in PremiumFeatures : requireFeature(r.w.users, i.userId, f) # "next"

\* the state cancelSubscription leaves: the record canceled, here and at the
\* provider, and the user on the free plan with no back-reference
CanceledByUser(u) ==
    LET r == RecordOf(World, u) IN
    /\ r # NoRec
    /\ r.status = "canceled"
    /\ r.stripeSubscriptionId \in 1..Len(stripeSubs)
    /\ stripeSubs[r.stripeSubscriptionId].status = "canceled"
    /\ users[u].plan = "free"
    /\ users[u].subscriptionId = Null

\* C3: once cancelSubscription has canceled a user's record and set the plan to
\* free, no webhook event about the same provider subscription makes the record
\* active again or gives the user a paid plan back.
C3_CancelIsTerminal ==
    \A u \in Users :
        CanceledByUser(u) =>
            \A e \in Events(World) :
                e.sid = RecordOf(World, u).stripeSubscriptionId =>
                    LET w2 == StripeWebhookRoute(World, "valid", e).w
                    IN /\ RecordOf(w2, u).status # "active"
                       /\ w2.users[u].plan = "free"

\* an event that activates: a subscription event with status active whose customer
\* is a user's, or a paid invoice of a subscription a record carries
Activates(w, e) ==
    \/ /\ e.type \in {"customer.subscription.created", "customer.subscription.updated"}
       /\ e.status = "active"
       /\ FindUserByStripeCustomerId(w.users, w.stripeSubs[e.sid].customer) # NoSuchUser
    \/ /\ e.type = "invoice.payment_succeeded"
       /\ e.sid # Null
       /\ FindOneByStripeSubscriptionId(w.subs, e.sid) # NoRec

\* the user an activating event is about
ActivatedUser(w, e) ==
    IF e.type = "invoice.payment_succeeded"
    THEN FindOneByStripeSubscriptionId(w.subs, e.sid).userId
    ELSE FindUserByStripeCustomerId(w.users, w.stripeSubs[e.sid].customer)

\* C4: applying an activating webhook event again leaves exactly the state of the
\* first application: one record for the user, active, with the dates the event
\* carries (replays do not move the period).
C4_ActivationIdempotent ==
    \A e \in Events(World) :
        Activates(World, e) =>
            LET u == ActivatedUser(World, e)
                w1 == handleStripeWebhook(World, e).w
                w2 == handleStripeWebhook(w1, e).w
                w3 == handleStripeWebhook(w2, e).w
            IN /\ w2 = w1
               /\ w3 = w1
               /\ Cardinality({r \in w1.subs : r.userId = u}) = 1
               /\ RecordOf(w1, u).status = "active"
               /\ RecordOf(w1, u).dueDate = e.period + 1
               /\ e.type # "invoice.payment_succeeded" => RecordOf(w1, u).startDate = e.period
               /\ e.type = "invoice.payment_succeeded" =>
                     RecordOf(w1, u).startDate = RecordOf(World, u).startDate

\* C4 witness: a paid invoice has been applied to a record with an earlier period,
\* and applying it again changes nothing
C4_Witness ==
    \E e \in Events(World) :
        /\ e.type = "invoice.payment_succeeded"
        /\ Activates(World, e)
        /\ RecordOf(World, ActivatedUser(World, e)).dueDate
              > RecordOf(World, ActivatedUser(World, e)).startDate + 1
        /\ handleStripeWebhook(World, e).w = World

\* C5: there is at most one Subscription Record per user id.
C5_OneRecordPerUser ==
    \A u \in Users \cup {NoSuchUser} : Cardinality({r \in subs : r.userId = u}) <= 1

\* C5 witness: the user's one record has been written by a second upsert, which
\* moved it to another provider subscription
C5_Witness ==
    \E r \in subs : r.id = 1 /\ r.stripeSubscriptionId = 2 /\ nextId = 2

\* every payload a Flutterwave webhook request may carry
AllPayloads ==
    [event : FlwEvents, status : {"successful", "failed"}, txRef : 1..MaxTx,
     hasMeta : BOOLEAN, now : Periods]

\* C7: a webhook request whose signature is missing or does not match the
\* configured secret is rejected and changes nothing, on either route.
C7_UnsignedWebhookRejected ==
    /\ \A sig \in Signatures \ {"valid"}, e \in Events(World) :
          LET r == StripeWebhookRoute(World, sig, e)
          IN r.w = World /\ r.status = 400
    /\ \A sig \in Signatures, secretSet \in BOOLEAN, p \in AllPayloads :
          ~(sig = "valid" /\ secretSet) =>
              LET r == FlutterwaveWebhookRoute(World, sig, secretSet, p)
              IN r.w = World /\ r.status = 401

\* C7 witness: an event that would change the state if it were processed
C7_Witness ==
    \E e \in Events(World) :
        /\ handleStripeWebhook(World, e).w # World
        /\ StripeWebhookRoute(World, "wrong", e).w = World

\* C8: cancelSubscription fails with BadRequest and changes nothing whenever the
\* user has no active paid subscription, a record already canceled included.
C8_CancelNeedsActive ==
    \A u \in Users, fail \in BOOLEAN :
        (RecordOf(World, u) = NoRec \/ RecordOf(World, u).status # "active") =>
            LET r == cancelSubscription(World, u, fail)
            IN r.status = 400 /\ r.w = World

C9_InactiveAlwaysDenied ==
    \A u \in Users, check \in GateChecks :
        ~users[u].isSubActive => GateCheck(users, usage, u, check) = "SUBSCRIPTION_INACTIVE"

\* C10: a free-plan user with maxClients clients is denied another, so a free-plan
\* user never owns more than maxClients clients.
C10_FreeClientCeiling ==
    \A u \in Users :
        users[u].plan = "free" =>
            /\ usage[u].clients <= maxClientsFree
            /\ usage[u].clients = maxClientsFree =>
                  ClientPostChain(users, usage, u) = "PLAN_CLIENT_LIMIT_REACHED"

\* C11: for a user with isSubActive = true, requireFeature(feature) passes exactly
\* when the PLAN_LIMITS row of the user's plan has the feature, and fails with
\* FEATURE_NOT_AVAILABLE (403) otherwise; free has no feature, premium has neither
\* hasTeamCollaboration nor hasCustomBranding.
C11_FeatureGateFollowsPlan ==
    \A u \in Users, f \in Features :
        users[u].isSubActive =>
            LET out == requireFeature(users, u, f) IN
            /\ out = "next" <=> f \in PLAN_LIMITS(users[u].plan).features
            /\ out # "next" => (out = "FEATURE_NOT_AVAILABLE" /\ GateStatus(out) = 403)
            /\ users[u].plan = "free" => out = "FEATURE_NOT_AVAILABLE"
            /\ (users[u].plan = "premium" /\ f \in {"hasTeamCollaboration", "hasCustomBranding"})
                  => out = "FEATURE_NOT_AVAILABLE"

\* C11 witness: an active premium user who owns clients is let through to the
\* calendar and denied custom branding
C11_Witness ==
    \E u \in Users :
        /\ users[u].isSubActive /\ users[u].plan = "premium"
        /\ usage[u].clients > 0
        /\ requireFeature(users, u, "hasCalendarScheduling") = "next"
        /\ requireFeature(users, u, "hasCustomBranding") = "FEATURE_NOT_AVAILABLE"

\* C12: in every reachable state a user on the free plan has isSubActive = true.
C12_FreeIsNeverInactive ==
    \A u \in Users : users[u].plan = "free" => users[u].isSubActive

\* C13: subscribe with a planId that is neither free nor in the plan catalog fails
\* with a 4xx error, makes no provider call that creates or updates a subscription,
\* and leaves User and Subscription Record unchanged.
C13_UnknownPlanRejected ==
    \A i \in SubscribeInputs :
        (i.userId \in Users /\ i.planId \notin Plans) =>
            LET r == subscribe(World, i.userId, i.planId, i.paymentMethodId, i.fail, i.period)
            IN /\ r.status \in 400..499
               /\ r.calls \cap {"subscriptions.create", "subscriptions.update"} = {}
               /\ r.w.users = users
               /\ r.w.subs = subs

\* C14: the verify callback is rejected with BadRequest exactly when neither tx_ref
\* nor transaction_id is supplied; no other query parameter decides it.
C14_ReferenceAloneDecides ==
    \A q \in Queries(World), fail \in BOOLEAN, metaReturned \in BOOLEAN, now \in Periods :
        LET r == verifyCallback(World, q, fail, metaReturned, now)
        IN (r.status = 400 /\ r.code = "BAD_REQUEST")
              <=> (q.tx_ref = Null /\ q.transaction_id = Null)

\* the event types handleStripeWebhook has a case for
HandledEventTypes ==
    {"customer.subscription.created", "customer.subscription.updated",
     "customer.subscription.deleted", "invoice.payment_succeeded"}

\* C15: a webhook event of a type the handler has no case for, a failed payment
\* among them, changes no Subscription Record and no User field and is answered
\* with 200.
C15_UnhandledEventIsNoOp ==
    \A e \in Events(World) :
        e.type \notin HandledEventTypes =>
            LET r == StripeWebhookRoute(World, "valid", e)
            IN r.w = World /\ r.status = 200

\* C15 witness: a failed invoice of the subscription an active record carries
C15_Witness ==
    \E e \in Events(World) :
        /\ e.type = "invoice.payment_failed"
        /\ e.sid # Null
        /\ FindOneByStripeSubscriptionId(subs, e.sid) # NoRec
        /\ FindOneByStripeSubscriptionId(subs, e.sid).status = "active"
        /\ StripeWebhookRoute(World, "valid", e).w = World

C18_ProviderFailureCommitsNothing ==
    \A i \in SubscribeInputs :
        (i.userId \in Users /\ i.planId \in PlanIdEnum) =>
            LET r == subscribe(World, i.userId, i.planId, i.paymentMethodId, i.fail, i.period)
            IN /\ (i.fail # "none" /\ i.fail \in r.calls) => r.code = "PROVIDER_ERROR"
               /\ r.code = "PROVIDER_ERROR" =>
                     /\ r.status = 500
                     /\ r.w.users = users
                     /\ r.w.subs = subs

\* C18 witness: a premium subscriber whose change to enterprise fails at the
\* provider's subscription update
C18_Witness ==
    \E u \in Users :
        /\ RecordOf(World, u) # NoRec
        /\ RecordOf(World, u).status = "active"
        /\ users[u].plan = "premium"
        /\ LET r == subscribe(World, u, "enterprise", "pm_1", "subscriptions.update", 0)
           IN "subscriptions.update" \in r.calls /\ r.code = "PROVIDER_ERROR" /\ r.w = World

\* C19: a customer.subscription.deleted event whose subscription id a record
\* carries sets that record to canceled and its user to plan free, isSubActive
\* false; when no record carries it, nothing changes.
C19_ProviderCancellation ==
    \A e \in Events(World) :
        e.type = "customer.subscription.deleted" =>
            LET rec == FindOneByStripeSubscriptionId(subs, e.sid)
                r == StripeWebhookRoute(World, "valid", e)
            IN IF rec = NoRec
               THEN r.w = World
               ELSE /\ r.w.subs = (subs \ {rec}) \cup {[rec EXCEPT !.status = "canceled"]}
                    /\ r.w.users[rec.userId].plan = "free"
                    /\ ~r.w.users[rec.userId].isSubActive

\* C19 witness: the provider has canceled a subscription this service did not
\* cancel itself, and the event has been applied
C19_Witness ==
    \E rec \in subs :
        /\ rec.status = "canceled"
        /\ rec.stripeSubscriptionId \in 1..Len(stripeSubs)
        /\ stripeSubs[rec.stripeSubscriptionId].status = "active"
        /\ users[rec.userId].plan = "free"
        /\ ~users[rec.userId].isSubActive

\* C20: no user on the free plan has a Subscription Record with status active.
C20_FreeHasNoActiveRecord ==
    \A u \in Users :
        users[u].plan = "free" =>
            (RecordOf(World, u) = NoRec \/ RecordOf(World, u).status # "active")

C24_ActiveRecordHasDates ==
    \A r \in subs : r.status = "active" => (r.startDate # NoDate /\ r.dueDate # NoDate)

\* C24 witness: a record made active by subscribe, by a subscription event or by a
\* paid invoice, its period moved on by the last of them
C24_Witness ==
    \E r \in subs :
        /\ r.status = "active"
        /\ r.startDate \in Periods
        /\ r.dueDate = MaxPeriod + 1
        /\ r.dueDate # r.startDate + 1

C28_BackReferenceResolves ==
    \A u \in Users :
        users[u].subscriptionId # Null =>
            \E r \in subs : r.id = users[u].subscriptionId /\ r.userId = u

\* C28 witness: the provider has canceled the subscription of a user who subscribed
\* here; the user still refers to the record, now canceled
C28_Witness ==
    \E u \in Users :
        /\ users[u].subscriptionId # Null
        /\ RecordOf(World, u).id = users[u].subscriptionId
        /\ RecordOf(World, u).status = "canceled"
        /\ users[u].plan = "free"

\* C29: after deleteAccount has completed successfully the user has no Subscription
\* Record in active status, and the provider subscription the record refers to has
\* been canceled.
C29_DeleteCancelsSubscription ==
    \A u \in Users, fail \in BOOLEAN :
        LET r == deleteAccount(World, u, fail)
            rec == RecordOf(r.w, u)
        IN (r.status = 200 /\ rec # NoRec) =>
              /\ rec.status # "active"
              /\ rec.stripeSubscriptionId \in 1..Len(r.w.stripeSubs) =>
                    r.w.stripeSubs[rec.stripeSubscriptionId].status = "canceled"

\* C30: changeUserPlan with a paid planId does not fail for lack of a payment
\* method; on success the user has the plan and a Subscription Record for it.
C30_AdminPlanChange ==
    \A u \in Users, planId \in PlanIdEnum, period \in Periods :
        LET r == changeUserPlan(World, u, planId, "none", period)
        IN /\ r.code # "PAYMENT_METHOD_REQUIRED"
           /\ r.status = 200 =>
                 (r.w.users[u].plan = planId /\ RecordOf(r.w, u).planId = planId)

\* C22: when a webhook activation and a subscribe activation of one user run
\* concurrently, interleaved at every database call, the user still has a
\* single Subscription Record: no interleaving produces two distinct records.
C22_ConcurrentActivationsOneRecord ==
    Cardinality({r \in subs : r.userId = RaceUser}) <= 1

\* both requests are in flight and both have written the record: the subscribe
\* request read no record and created its own provider subscription
C22_Witness ==
    \E p, q \in Procs :
        /\ At(p, "subscribe", "user")
        /\ procs[p].sid > Len(ProviderSide)
        /\ At(q, "webhook", "user")
        /\ Cardinality(subs) = 1

\* C23: for any interleaving of subscribe, cancelSubscription and the webhook
\* handler on one user, stepped at each database or provider call, the final
\* User and Subscription Record state is the state some serial order of the
\* same operations produces.
C23_InterleavingIsSerializable ==
    AllDone =>
        \E o \in SerialOrders :
            Billing(World) = Billing(RunSerial(RunSerial(RaceStart, procs[o[1]]), procs[o[2]]))

\* C26: for any interleaving of subscribe and subscription created/updated
\* webhook handling on one user, once all operations have completed a user on
\* a paid plan has a Subscription Record whose planId equals User.plan.
C26_PlanAgreesAfterRace ==
    (AllDone /\ \A p \in Procs : procs[p].op \in {"subscribe", "webhook"}) =>
        (users[RaceUser].plan \in PlanIdEnum =>
            /\ RecordOf(World, RaceUser) # NoRec
            /\ RecordOf(World, RaceUser).planId = users[RaceUser].plan)

\* C27: for any interleaving of two subscribe calls for a paid plan by a user
\* who has no Subscription Record, every provider subscription the calls
\* created is the one the user's final Subscription Record refers to.
C27_NoOrphanedProviderSubscription ==
    (AllDone /\ \A p \in Procs : procs[p].op = "subscribe") =>
        \A sid \in (Len(ProviderSide) + 1)..Len(stripeSubs) :
            /\ RecordOf(World, RaceUser) # NoRec
            /\ RecordOf(World, RaceUser).stripeSubscriptionId = sid

TypeOK ==
    /\ users \in [Users -> [plan : Plans, isSubActive : BOOLEAN,
                            subscriptionId : 0..MaxIds,
                            stripeCustomerId : Customers \cup {NoCustomer}]]
    /\ nextId \in 1..(MaxIds + 1)
    /\ Len(stripeSubs) <= MaxStripeSubs + Len(ProviderSide)
    /\ procs \in [Procs -> [op : {"none", "subscribe", "webhook", "cancel"},
                            pc : {"idle", "provider", "upsert", "save", "user", "done"},
                            planId : Plans, price : EventPrices, status : StripeStatuses,
                            period : Periods, sid : 0..(MaxStripeSubs + Len(ProviderSide)),
                            recId : 0..MaxIds]]
    /\ Len(flwTx) <= MaxTx
    /\ \A u \in Users : usage[u].clients \in 0..MaxClientsModelled
====
